---- MODULE Spec2Model ----
(***************************************************************************)
(* Model of src/llm_response_parsing/llm_response_parsing_regex.py:        *)
(* process_toxicity_data with its two extraction helpers, the             *)
(* normalization pass over the extracted columns, the merge into the       *)
(* table and the chained sequence of four invocations.                     *)
(*                                                                         *)
(* Text is modelled by TLA+ strings, character by character: containment,  *)
(* lower-casing, character stripping and the regular expressions are       *)
(* computed on the characters as Python computes them.                     *)
(***************************************************************************)
EXTENDS Integers, Sequences, FiniteSets, TLC

VARIABLES
    conversation,       \* SpecExtract: the record handed to the two extractors
    first_attribute,    \* SpecExtract: outcome of extract_first_attribute
    second_attribute,   \* SpecExtract: outcome of extract_second_attribute
    cells,              \* SpecExtract: the record's Label/Category after the normalization pass
    pc,                 \* Spec: position of the script
    run,                \* Spec: number of invocations started so far
    file,               \* Spec: the table file the next invocation reads
    df,                 \* Spec: the table read by the current invocation
    data_llama,         \* Spec: the Llama JSON list loaded by the current invocation
    data_zephyr,        \* Spec: the Zephyr JSON list loaded by the current invocation
    written,            \* Spec: the table file written by the current invocation, or NotWritten
    error               \* Spec: the exception that ended the script, or NoError

vars == <<conversation, first_attribute, second_attribute, cells,
          pc, run, file, df, data_llama, data_zephyr, written, error>>

-----------------------------------------------------------------------------
(* Python str operations *)

UpperCase == <<"A","B","C","D","E","F","G","H","I","J","K","L","M",
               "N","O","P","Q","R","S","T","U","V","W","X","Y","Z">>
LowerCase == <<"a","b","c","d","e","f","g","h","i","j","k","l","m",
               "n","o","p","q","r","s","t","u","v","w","x","y","z">>

ToLower == [c \in {UpperCase[i] : i \in 1..Len(UpperCase)} |->
               LowerCase[CHOOSE i \in 1..Len(UpperCase) : UpperCase[i] = c]]

\* str.lower() of one character
LowerChar(c) == IF c \in DOMAIN ToLower THEN ToLower[c] ELSE c

RECURSIVE Concat(_)
Concat(cs) == IF cs = <<>> THEN "" ELSE Head(cs) \o Concat(Tail(cs))

\* str.lower()
Lower(s) == Concat([i \in 1..Len(s) |-> LowerChar(SubSeq(s, i, i))])

\* the positions at which p occurs in s
Occurrences(s, p) ==
    {i \in 1..(Len(s) - Len(p) + 1) : SubSeq(s, i, i + Len(p) - 1) = p}

\* p in s
Contains(s, p) == Occurrences(s, p) # {}

\* str.replace of every character in drop by the empty string
RECURSIVE StripChars(_, _)
StripChars(s, drop) ==
    IF s = "" THEN ""
    ELSE (IF SubSeq(s, 1, 1) \in drop THEN "" ELSE SubSeq(s, 1, 1))
         \o StripChars(SubSeq(s, 2, Len(s)), drop)

\* sep.join(parts)
RECURSIVE Join(_, _)
Join(sep, parts) ==
    IF parts = <<>> THEN ""
    ELSE IF Len(parts) = 1 THEN parts[1]
    ELSE parts[1] \o sep \o Join(sep, Tail(parts))

\* the search without re.IGNORECASE
SearchCaseSensitive(literal, s) == Contains(s, literal)

\* re.search(literal, s, re.IGNORECASE) finds a match
SearchIgnoreCase(literal, s) == Contains(Lower(s), Lower(literal))

Whitespace == {" ", "\t", "\n", "\r", "\f"}

\* s without its leading whitespace: what \s* consumes greedily
RECURSIVE SkipWhitespace(_)
SkipWhitespace(s) ==
    IF s # "" /\ SubSeq(s, 1, 1) \in Whitespace
    THEN SkipWhitespace(SubSeq(s, 2, Len(s)))
    ELSE s

RoleMarker == "<|assistant|>"

\* re.search(r'<\|assistant\|>\s*(.*)', s, re.DOTALL) finds a match
MatchMalformed(s) == Contains(s, RoleMarker)

\* group(1) of that match: everything after the leftmost marker and the
\* whitespace that follows it, line breaks included
MalformedGroup1(s) ==
    LET at == CHOOSE i \in Occurrences(s, RoleMarker) :
                  \A j \in Occurrences(s, RoleMarker) : i <= j
    IN  SkipWhitespace(SubSeq(s, at + Len(RoleMarker), Len(s)))

-----------------------------------------------------------------------------
(* JSON values as json.load returns them *)

Str(s)      == [t |-> "str",  s |-> s,  items |-> <<>>]
Num(n)      == [t |-> "num",  s |-> n,  items |-> <<>>]
List(s)     == [t |-> "list", s |-> s,  items |-> <<>>]
Null        == [t |-> "null", s |-> "", items |-> <<>>]
\* a dict: its (key, value) pairs in insertion order
Dict(items) == [t |-> "dict", s |-> "", items |-> items]
Item(k, v)  == [k |-> k, v |-> v]

IsDict(x) == x.t = "dict"
IsStr(x)  == x.t = "str"

\* key in d
HasKey(d, key) == \E i \in 1..Len(d.items) : d.items[i].k = key

\* d[key], for a key that d has
Get(d, key) == d.items[CHOOSE i \in 1..Len(d.items) : d.items[i].k = key].v

\* outcome of a call: a returned value or a raised exception
Return(v) == [raised |-> FALSE, value |-> v, exc |-> ""]
Raise(e)  == [raised |-> TRUE, value |-> Null, exc |-> e]

\* conversation[2]["content"]
AssistantContent(conv) ==
    IF Len(conv) < 3 THEN Raise("IndexError")
    ELSE IF ~HasKey(conv[3], "content") THEN Raise("KeyError")
    ELSE Return(Get(conv[3], "content"))

PatternNo  == "\"Is it toxic\": \"no\""
PatternYes == "\"Is it toxic\": \"yes\""

\* the structured branch taken only by a mapping without a content key
FirstKeyValueStructuredOnly(assistant_content) ==
    IF IsDict(assistant_content) /\ ~HasKey(assistant_content, "content")
    THEN IF assistant_content.items = <<>>
         THEN Raise("IndexError")
         ELSE Return(assistant_content.items[1].v)
    ELSE Return(Str("none"))

\* lines 62-67 of extract_first_attribute: the value at the first key
FirstKeyValue(assistant_content) ==
    IF IsDict(assistant_content)
    THEN IF assistant_content.items = <<>>
         THEN Raise("IndexError")
         ELSE Return(assistant_content.items[1].v)
    ELSE Return(Str("none"))

\* the bare containment check evaluated before the negative phrases
MalformedLabelToxicFirst(nested_content) ==
    LET body_response == Lower(MalformedGroup1(nested_content))
    IN  IF Contains(body_response, "toxic") THEN "yes"
        ELSE IF \/ Contains(body_response, "non-toxic")
                \/ Contains(body_response, "not toxic")
                \/ Contains(body_response, "not flagged as toxic")
        THEN "no"
        ELSE "none"

\* lines 53-61: the label read from the text after the role marker
MalformedLabel(nested_content) ==
    LET body_response == Lower(MalformedGroup1(nested_content))
    IN  IF \/ Contains(body_response, "non-toxic")
           \/ Contains(body_response, "not toxic")
           \/ Contains(body_response, "not flagged as toxic")
        THEN "no"
        ELSE IF Contains(body_response, "toxic") THEN "yes"
        ELSE "none"

extract_first_attribute(conv) ==
    LET got == AssistantContent(conv)
        assistant_content == got.value
    IN  IF got.raised THEN got
        ELSE IF IsDict(assistant_content) /\ HasKey(assistant_content, "content")
        THEN LET nested_content == Get(assistant_content, "content")
             IN  IF ~IsStr(nested_content) THEN Raise("TypeError")
                 ELSE IF SearchIgnoreCase(PatternNo, nested_content.s)
                 THEN Return(Str("no"))
                 ELSE IF SearchIgnoreCase(PatternYes, nested_content.s)
                 THEN Return(Str("yes"))
                 ELSE IF MatchMalformed(nested_content.s)
                 THEN Return(Str(MalformedLabel(nested_content.s)))
                 ELSE FirstKeyValue(assistant_content)
        ELSE FirstKeyValue(assistant_content)

\* lines 92-101: the canonical names of the stems found, in the code's order
Stems == << <<"insult", "insult">>, <<"obscen", "obscene">>,
            <<"sexual", "sexual_explicit">>, <<"identity", "identity_attack">>,
            <<"threat", "threat">> >>

\* the five checks chained with elif: the scan stops at the first stem found
RECURSIVE ScanStemsFirstOnly(_, _)
ScanStemsFirstOnly(body_response, i) ==
    IF i > Len(Stems) THEN <<>>
    ELSE IF Contains(body_response, Stems[i][1]) THEN <<Stems[i][2]>>
    ELSE ScanStemsFirstOnly(body_response, i + 1)

RECURSIVE ScanStems(_, _)
ScanStems(body_response, i) ==
    IF i > Len(Stems) THEN <<>>
    ELSE (IF Contains(body_response, Stems[i][1]) THEN <<Stems[i][2]>> ELSE <<>>)
         \o ScanStems(body_response, i + 1)

\* lines 82-103: the categories read from the text after the role marker
MalformedCategory(nested_content) ==
    LET body_response == Lower(MalformedGroup1(nested_content))
    IN  IF \/ Contains(body_response, "non-toxic")
           \/ Contains(body_response, "not toxic")
        THEN "none"
        ELSE Join(", ", ScanStems(body_response, 1))

\* lines 105-112 of extract_second_attribute: the value at the second key
SecondKeyValue(assistant_content) ==
    IF IsDict(assistant_content) /\ Len(assistant_content.items) >= 2
    THEN Return(assistant_content.items[2].v)
    ELSE Return(Str("none"))

extract_second_attribute(conv) ==
    LET got == AssistantContent(conv)
        assistant_content == got.value
    IN  IF got.raised THEN got
        ELSE IF IsDict(assistant_content) /\ HasKey(assistant_content, "content")
        THEN LET nested_content == Get(assistant_content, "content")
             IN  IF ~IsStr(nested_content) THEN Raise("TypeError")
                 ELSE IF SearchIgnoreCase(PatternNo, nested_content.s)
                 THEN Return(Str("none"))
                 ELSE IF MatchMalformed(nested_content.s)
                 THEN Return(Str(MalformedCategory(nested_content.s)))
                 ELSE SecondKeyValue(assistant_content)
        ELSE SecondKeyValue(assistant_content)

-----------------------------------------------------------------------------
(* The normalization pass, lines 131-139, on one cell of a column *)

\* a missing value of a column
NaN == "<NaN>"

Labels     == {"yes", "no", "none"}
Categories == {"insult", "obscene", "sexual_explicit", "threat", "identity_attack"}

\* .str.lower().replace({'no': 'no', 'yes': 'yes'}), then the isin filter;
\* the .str methods give a missing value for an element that is no string
NormalizeLabel(v) ==
    LET lowered  == IF IsStr(v) THEN Lower(v.s) ELSE NaN
        replaced == IF lowered = "no" THEN "no"
                    ELSE IF lowered = "yes" THEN "yes" ELSE lowered
    IN  IF replaced \in Labels THEN replaced ELSE "none"

\* .str.replace(r"['\"\[\]]", '', regex=True).str.lower(), then the isin filter
NormalizeCategory(v) ==
    LET cleaned == IF IsStr(v) THEN Lower(StripChars(v.s, {"'", "\"", "[", "]"}))
                   ELSE NaN
    IN  IF cleaned \in Categories THEN cleaned ELSE "none"

-----------------------------------------------------------------------------
(* Conversation records *)

Turn(role, content) == Dict(<<Item("role", Str(role)), Item("content", content)>>)

\* a record of three turns whose assistant turn carries content ac
Conversation(ac) ==
    <<Turn("system", Str("Label the message.")), Turn("user", Str("gg ez")),
      Turn("assistant", ac)>>

\* a record with no turn at index 2
TwoTurns == <<Turn("system", Str("Label the message.")), Turn("user", Str("gg ez"))>>

\* a record whose turn at index 2 has no content
NoContent ==
    <<Turn("system", Str("Label the message.")), Turn("user", Str("gg ez")),
      Dict(<<Item("role", Str("assistant"))>>)>>

\* the nested strings of malformed replies: an optional quasi-JSON fragment and
\* words before an optional role marker, then a verdict phrase and stem words
QuasiNo      == {"", "{\"Is it toxic\": \"no\"} ", "\"IS IT TOXIC\": \"No\", "}
QuasiYes     == {"", "{\"is it toxic\": \"YES\"} "}
LeadingWords == {"", "toxic threat "}
Markers      == {"", "<|assistant|>\n ", "<|ASSISTANT|> "}
Verdicts     == {"", "Toxic.", "This is NOT toxic.", "Non-toxic message.",
                 "Not flagged as toxic."}
StemWords    == <<" Insulting", " obscenity", " sexually", " identity", " threats">>

StemText(chosen) ==
    Concat([i \in 1..Len(StemWords) |-> IF i \in chosen THEN StemWords[i] ELSE ""])

NestedText(leading, verdicts, stemSets) ==
    {qn \o qy \o lw \o m \o v \o StemText(chosen) :
        qn \in QuasiNo, qy \in QuasiYes, lw \in leading, m \in Markers,
        v \in verdicts, chosen \in stemSets}

NestedStrings == NestedText(LeadingWords, Verdicts, SUBSET (1..Len(StemWords)))
ShortStrings  == NestedText({""}, {"", "Toxic."}, {{}, {Len(StemWords)}})

\* the keys and values of structured replies
OtherItems ==
    {Item("Is it toxic", Str("Yes")), Item("Is it toxic", Str("no")),
     Item("Is it toxic", Num("1")),
     Item("category", Str("['Threat']")), Item("category", Str("insult, threat")),
     Item("category", List("['obscene']"))}

DistinctKeys(items) ==
    \A i, j \in 1..Len(items) : i # j => items[i].k # items[j].k

\* the orders in which item c can be put among the items of seq
Insertions(seq, c) ==
    {SubSeq(seq, 1, i) \o <<c>> \o SubSeq(seq, i + 1, Len(seq)) : i \in 0..Len(seq)}

StructuredItems ==
    {<<>>} \cup {<<a>> : a \in OtherItems}
           \cup {ab \in {<<a, b>> : a \in OtherItems, b \in OtherItems} : DistinctKeys(ab)}

AssistantContents ==
    \* non-mappings
    {Str("yes"), Num("0"), Null, List("['no']")}
    \* plain mappings without a content key
    \cup {Dict(items) : items \in StructuredItems}
    \* mappings whose only key is content
    \cup {Dict(<<Item("content", Str(s))>>) : s \in NestedStrings}
    \cup {Dict(<<Item("content", v)>>) : v \in {Num("7"), Null, List("['no']")}}
    \* mappings with a content key among other keys
    \cup UNION {{Dict(items) : items \in Insertions(others, Item("content", Str(s)))} :
                   others \in StructuredItems \ {<<>>}, s \in ShortStrings}

Conversations == {TwoTurns, NoContent} \cup {Conversation(ac) : ac \in AssistantContents}

-----------------------------------------------------------------------------
(* SpecExtract: the two extractors and the normalization pass on one record *)

Pending == [raised |-> FALSE, value |-> Null, exc |-> "pending"]
NoCells == [label |-> "", category |-> ""]
NotWritten == <<>>
NoError == ""

InitExtract ==
    /\ conversation \in Conversations
    /\ first_attribute = Pending
    /\ second_attribute = Pending
    /\ cells = NoCells
    /\ pc = "first"
    /\ run = 0
    /\ file = <<>>
    /\ df = <<>>
    /\ data_llama = <<>>
    /\ data_zephyr = <<>>
    /\ written = NotWritten
    /\ error = NoError

ExtractFirst ==
    /\ pc = "first"
    /\ first_attribute' = extract_first_attribute(conversation)
    /\ pc' = "second"
    /\ UNCHANGED <<conversation, second_attribute, cells,
                   run, file, df, data_llama, data_zephyr, written, error>>

ExtractSecond ==
    /\ pc = "second"
    /\ second_attribute' = extract_second_attribute(conversation)
    /\ pc' = "normalize"
    /\ UNCHANGED <<conversation, first_attribute, cells,
                   run, file, df, data_llama, data_zephyr, written, error>>

\* the record's two derived cells once its columns went through lines 131-139
Normalize ==
    /\ pc = "normalize"
    /\ ~first_attribute.raised
    /\ ~second_attribute.raised
    /\ cells' = [label    |-> NormalizeLabel(first_attribute.value),
                 category |-> NormalizeCategory(second_attribute.value)]
    /\ pc' = "normalized"
    /\ UNCHANGED <<conversation, first_attribute, second_attribute,
                   run, file, df, data_llama, data_zephyr, written, error>>

NextExtract == ExtractFirst \/ ExtractSecond \/ Normalize

SpecExtract == InitExtract /\ [][NextExtract]_vars

-----------------------------------------------------------------------------
(* Tables: the files on disk and the frames in memory *)

MaxRows  == 2    \* most rows of the first input table
MaxConvs == 2    \* most records of a JSON list
NumRuns  == 4    \* invocations of process_toxicity_data, lines 151-154

TextColumn == "Message"
ZephyrLabel    == "Zephyr Vanilla_E Label"
ZephyrCategory == "Zephyr Vanilla_E Category"
LlamaLabel     == "Llama Vanilla_E Label"
LlamaCategory  == "Llama Vanilla_E Category"
DerivedColumns == {ZephyrLabel, ZephyrCategory, LlamaLabel, LlamaCategory}

\* A table is [nrows, cols]: cols maps each column name to its cells, one per
\* row. A cell of the text column is a sequence of code points in a frame and
\* a sequence of bytes in a file (empty: no value); a cell of a derived column
\* is a string (NaN in a frame and the empty field in a file: no value).
Table(nrows, cols) == [nrows |-> nrows, cols |-> cols]

\* encoding='ISO-8859-1': each byte is the code point of the same number
Latin1Decode(bytes) == bytes

\* to_csv writes UTF-8: one byte below 128, two bytes up to 2047
RECURSIVE Utf8Encode(_)
Utf8Encode(text) ==
    IF text = <<>> THEN <<>>
    ELSE (IF Head(text) < 128 THEN <<Head(text)>>
          ELSE <<192 + (Head(text) \div 64), 128 + (Head(text) % 64)>>)
         \o Utf8Encode(Tail(text))

\* pd.read_csv(input_csv, encoding='ISO-8859-1'), line 23
ReadCsv(f) ==
    Table(f.nrows,
          [c \in DOMAIN f.cols |->
              [i \in 1..f.nrows |->
                  IF c = TextColumn THEN Latin1Decode(f.cols[c][i])
                  ELSE IF f.cols[c][i] = "" THEN NaN ELSE f.cols[c][i]]])

\* df.to_csv(output_csv, index=False), line 148
WriteCsv(frame) ==
    Table(frame.nrows,
          [c \in DOMAIN frame.cols |->
              [i \in 1..frame.nrows |->
                  IF c = TextColumn THEN Utf8Encode(frame.cols[c][i])
                  ELSE IF frame.cols[c][i] = NaN THEN "" ELSE frame.cols[c][i]]])

\* df[name] = series, lines 142-145: the series is aligned on the row index;
\* a frame without rows first takes the index of a non-empty series
SetColumn(frame, name, series) ==
    LET grown == IF frame.nrows = 0 /\ Len(series) > 0
                 THEN Table(Len(series),
                            [c \in DOMAIN frame.cols |->
                                [i \in 1..Len(series) |->
                                    IF c = TextColumn THEN <<>> ELSE NaN]])
                 ELSE frame
        aligned == [i \in 1..grown.nrows |->
                       IF i <= Len(series) THEN series[i] ELSE NaN]
    IN  Table(grown.nrows,
              [c \in DOMAIN grown.cols \cup {name} |->
                  IF c = name THEN aligned ELSE grown.cols[c]])

-----------------------------------------------------------------------------
(* process_toxicity_data *)

\* the records of the JSON lists: a structured reply, a malformed reply and
\* a damaged record
StructuredReply ==
    Conversation(Dict(<<Item("Is it toxic", Str("Yes")),
                        Item("category", Str("['Threat']"))>>))
MalformedReply ==
    Conversation(Dict(<<Item("content",
        Str("<|assistant|>\n Not flagged as toxic. Insulting"))>>))
BatchRecords == {StructuredReply, MalformedReply, TwoTurns, NoContent}

\* the lists of at most MaxConvs records: replies and one kind of damaged record
JsonLists(damaged) ==
    UNION {[1..n -> {StructuredReply, MalformedReply, damaged}] : n \in 0..MaxConvs}

\* the Llama file may hold records cut short, the Zephyr file turns without content
LlamaLists  == JsonLists(TwoTurns)
ZephyrLists == JsonLists(NoContent)

\* the extractors applied to the records, lines 115-120
ExtractedFirst  == [c \in BatchRecords |-> extract_first_attribute(c)]
ExtractedSecond == [c \in BatchRecords |-> extract_second_attribute(c)]

Values(vs) == [raised |-> FALSE, values |-> vs, exc |-> ""]
Failed(e)  == [raised |-> TRUE, values |-> <<>>, exc |-> e]

\* a comprehension that leaves out the records on which the extractor raises
ComprehensionSkipping(extracted, data) ==
    LET Good(c) == ~extracted[c].raised
        kept == SelectSeq(data, Good)
    IN  Values([i \in 1..Len(kept) |-> extracted[kept[i]].value])

\* [extract(conversation) for conversation in data]: the values in list
\* order, or the exception of the first record on which the extractor raises
Comprehension(extracted, data) ==
    LET bad == {i \in 1..Len(data) : extracted[data[i]].raised}
    IN  IF bad # {}
        THEN Failed(extracted[data[CHOOSE i \in bad : \A j \in bad : i <= j]].exc)
        ELSE Values([i \in 1..Len(data) |-> extracted[data[i]].value])

\* lines 122-126: the four lists as columns of toxic_df. The first list sets
\* the index; a list of another length raises, except that a frame without
\* rows takes the index of the first non-empty list and its earlier columns
\* are filled with missing values.
ToxicFrame(first_llama, second_llama, first_zephyr, second_zephyr) ==
    IF Len(first_llama) > 0 /\ Len(first_zephyr) # Len(first_llama)
    THEN Failed("ValueError")
    ELSE LET Filled(col) == IF Len(col) = 0
                            THEN [i \in 1..Len(first_zephyr) |-> Null] ELSE col
         IN  Values([llama_label     |-> Filled(first_llama),
                     llama_category  |-> Filled(second_llama),
                     zephyr_label    |-> first_zephyr,
                     zephyr_category |-> second_zephyr,
                     from_empty      |-> {k \in {"llama", "zephyr"} :
                                            IF k = "llama" THEN Len(first_llama) = 0
                                            ELSE Len(first_zephyr) = 0}])

\* the derived columns taken from the other model's lists
CombineSwapped(frame, zephyr_label, zephyr_category, llama_label, llama_category) ==
    SetColumn(SetColumn(SetColumn(SetColumn(frame,
        ZephyrLabel, llama_label), ZephyrCategory, llama_category),
        LlamaLabel, zephyr_label), LlamaCategory, zephyr_category)

\* lines 142-145
Combine(frame, zephyr_label, zephyr_category, llama_label, llama_category) ==
    SetColumn(SetColumn(SetColumn(SetColumn(frame,
        ZephyrLabel, zephyr_label), ZephyrCategory, zephyr_category),
        LlamaLabel, llama_label), LlamaCategory, llama_category)

\* Lines 115-148 on the frame and the two lists read. The .str accessor of
\* lines 131-134 raises on a column that holds no strings; whether a column
\* made from an empty list is such a column depends on the dtype the library
\* gives it (empty_is_object). The records above yield string values only.
process_toxicity_data(frame, llama, zephyr, empty_is_object) ==
    LET first_llama   == Comprehension(ExtractedFirst, llama)
        first_zephyr  == Comprehension(ExtractedFirst, zephyr)
        second_llama  == Comprehension(ExtractedSecond, llama)
        second_zephyr == Comprehension(ExtractedSecond, zephyr)
    IN  IF first_llama.raised THEN Failed(first_llama.exc)
        ELSE IF first_zephyr.raised THEN Failed(first_zephyr.exc)
        ELSE IF second_llama.raised THEN Failed(second_llama.exc)
        ELSE IF second_zephyr.raised THEN Failed(second_zephyr.exc)
        ELSE LET toxic == ToxicFrame(first_llama.values, second_llama.values,
                                     first_zephyr.values, second_zephyr.values)
                 toxic_df == toxic.values
                 LabelColumn(col)    == [i \in 1..Len(col) |-> NormalizeLabel(col[i])]
                 CategoryColumn(col) == [i \in 1..Len(col) |-> NormalizeCategory(col[i])]
             IN  IF toxic.raised THEN Failed(toxic.exc)
                 ELSE IF toxic_df.from_empty # {} /\ ~empty_is_object
                 THEN Failed("AttributeError")
                 ELSE Values(WriteCsv(Combine(frame,
                                 LabelColumn(toxic_df.zephyr_label),
                                 CategoryColumn(toxic_df.zephyr_category),
                                 LabelColumn(toxic_df.llama_label),
                                 CategoryColumn(toxic_df.llama_category))))

-----------------------------------------------------------------------------
(* Spec: the script, four chained invocations *)

\* the text of row i of toxicity_labels_full.csv: every second row holds a
\* character outside ASCII
FirstText(i) == IF i % 2 = 0 THEN <<233, 48 + i>> ELSE <<109, 48 + i>>

FirstFiles ==
    {Table(n, [c \in {TextColumn} |-> [i \in 1..n |-> FirstText(i)]]) : n \in 0..MaxRows}

Init ==
    /\ conversation = <<>>
    /\ first_attribute = Pending
    /\ second_attribute = Pending
    /\ cells = NoCells
    /\ pc = "call"
    /\ run = 0
    /\ file \in FirstFiles
    /\ df = <<>>
    /\ data_llama = <<>>
    /\ data_zephyr = <<>>
    /\ written = NotWritten
    /\ error = NoError

\* lines 23-31: the table and the two JSON lists are read
Load ==
    /\ pc = "call"
    /\ run < NumRuns
    /\ run' = run + 1
    /\ df' = ReadCsv(file)
    /\ data_llama' \in LlamaLists
    /\ data_zephyr' \in ZephyrLists
    /\ written' = NotWritten
    /\ pc' = "loaded"
    /\ UNCHANGED <<conversation, first_attribute, second_attribute, cells, file, error>>

\* the dtypes the library may give a column made from an empty list: an
\* object column (TRUE) or a float column (FALSE)
EmptyColumnDtypes(llama, zephyr) ==
    IF llama = <<>> \/ zephyr = <<>> THEN BOOLEAN ELSE {TRUE}

\* lines 115-149, and the return to the script, which ends the function's
\* variables: an exception ends the script, a written table is the input of
\* the next invocation
Process ==
    /\ pc = "loaded"
    /\ \E empty_is_object \in EmptyColumnDtypes(data_llama, data_zephyr) :
          LET out == process_toxicity_data(df, data_llama, data_zephyr, empty_is_object)
          IN  IF out.raised
              THEN /\ pc' = "aborted"
                   /\ error' = out.exc
                   /\ UNCHANGED <<file, written>>
              ELSE /\ pc' = IF run = NumRuns THEN "done" ELSE "call"
                   /\ written' = out.values
                   /\ file' = out.values
                   /\ UNCHANGED error
    /\ df' = <<>>
    /\ data_llama' = <<>>
    /\ data_zephyr' = <<>>
    /\ UNCHANGED <<conversation, first_attribute, second_attribute, cells, run>>

Next == Load \/ Process

Spec == Init /\ [][Next]_vars

-----------------------------------------------------------------------------
(* Properties of the extractors, checked under SpecExtract *)

\* the record has a turn at index 2 and that turn has content
HasTurnContent == Len(conversation) >= 3 /\ HasKey(conversation[3], "content")

TurnContent == Get(conversation[3], "content")

\* the content is a mapping whose content key holds a string
IsNestedString ==
    /\ HasTurnContent
    /\ IsDict(TurnContent)
    /\ HasKey(TurnContent, "content")
    /\ IsStr(Get(TurnContent, "content"))

Nested == Get(TurnContent, "content").s

FirstDone  == pc \in {"second", "normalize", "normalized"}
SecondDone == pc \in {"normalize", "normalized"}

HasPatternNo  == Contains(Lower(Nested), "\"is it toxic\": \"no\"")
HasPatternYes == Contains(Lower(Nested), "\"is it toxic\": \"yes\"")
HasMarker     == Contains(Nested, "<|assistant|>")

\* the lower-cased text after the role marker
Body == Lower(MalformedGroup1(Nested))

\* C3: a nested string containing "Is it toxic": "no" in any letter case gives
\* label no and category none, whatever else the string contains.
C3_NoToxicShortCircuit ==
    (IsNestedString /\ HasPatternNo) =>
        /\ FirstDone => first_attribute = Return(Str("no"))
        /\ SecondDone => second_attribute = Return(Str("none"))

C3_Witness ==
    /\ IsNestedString
    /\ Contains(Nested, "\"IS IT TOXIC\": \"No\"")
    /\ HasPatternYes
    /\ HasMarker
    /\ Contains(Body, "toxic.")
    /\ Contains(Body, "threat")
    /\ pc = "normalize"
    /\ first_attribute = Return(Str("no"))
    /\ second_attribute = Return(Str("none"))

\* C4: a free-text reply after the role marker, with no "Is it toxic" pattern,
\* whose text contains "not toxic" gives label no and category none, also when
\* the text contains category keywords.
C4_NotToxicPrecedence ==
    (/\ IsNestedString /\ ~HasPatternNo /\ ~HasPatternYes /\ HasMarker
     /\ Contains(Body, "not toxic")) =>
        /\ FirstDone => first_attribute = Return(Str("no"))
        /\ SecondDone => second_attribute = Return(Str("none"))

C4_Witness ==
    /\ IsNestedString /\ ~HasPatternNo /\ ~HasPatternYes /\ HasMarker
    /\ Contains(Body, "not toxic")
    /\ Contains(Body, "insult")
    /\ Contains(Body, "threat")
    /\ pc = "normalize"
    /\ first_attribute = Return(Str("no"))
    /\ second_attribute = Return(Str("none"))

C5_StemList == <<"insult", "obscen", "sexual", "identity", "threat">>
C5_NameList == <<"insult", "obscene", "sexual_explicit", "identity_attack", "threat">>

\* the stems that occur in the text after the marker
C5_Matched == {i \in 1..Len(C5_StemList) : Contains(Body, C5_StemList[i])}

C5_Expected ==
    LET InBody(i) == i \in C5_Matched
        found == SelectSeq([i \in 1..Len(C5_StemList) |-> i], InBody)
    IN  Join(", ", [k \in 1..Len(found) |-> C5_NameList[found[k]]])

\* a free-text reply after the role marker without a non-toxic phrase
C5_Case ==
    /\ IsNestedString /\ ~HasPatternNo /\ HasMarker
    /\ ~Contains(Body, "non-toxic")
    /\ ~Contains(Body, "not toxic")

\* C5: for a free-text reply without a non-toxic phrase, category extraction
\* returns the canonical names of exactly the stems found in the text, in the
\* fixed order, joined by ", "; after normalization the Category cell is a
\* canonical category iff exactly one stem matched and none otherwise.
C5_KeywordUnionThenCollapse ==
    C5_Case =>
        /\ SecondDone => second_attribute = Return(Str(C5_Expected))
        /\ pc = "normalized" =>
              cells.category =
                  IF Cardinality(C5_Matched) = 1
                  THEN C5_NameList[CHOOSE i \in C5_Matched : TRUE]
                  ELSE "none"

C5_Witness ==
    /\ C5_Case
    /\ C5_Matched = {1, Len(C5_StemList)}
    /\ pc = "normalized"
    /\ second_attribute = Return(Str("insult, threat"))
    /\ cells.category = "none"

\* the nested string matches none of the three patterns
C6_PatternMiss == IsNestedString /\ ~HasPatternNo /\ ~HasPatternYes /\ ~HasMarker

\* C6 as stated: after a pattern miss the label extraction yields no value, so
\* the Label cell is none whatever the mapping's keys and values are.
C6_PatternMissGivesNone ==
    (C6_PatternMiss /\ pc = "normalized") => cells.label = "none"

\* C6 as amended: after a pattern miss the label extraction returns the value
\* at the mapping's first key, and the Label cell is that value lower-cased
\* when it is a string in {yes, no, none} and none otherwise.
C6_PatternMissReturnsFirstKey ==
    C6_PatternMiss =>
        LET v == TurnContent.items[1].v
        IN  /\ FirstDone => first_attribute = Return(v)
            /\ pc = "normalized" =>
                  cells.label =
                      IF IsStr(v) /\ Lower(v.s) \in {"yes", "no", "none"}
                      THEN Lower(v.s) ELSE "none"

C6_Witness ==
    /\ C6_PatternMiss
    /\ TurnContent.items[1].k = "Is it toxic"
    /\ pc = "normalized"
    /\ first_attribute = Return(Str("Yes"))
    /\ cells.label = "yes"

\* C9: on the malformed path, for each of the three negative phrases the
\* label extraction recognises, a label no comes with a category none (or an
\* empty keyword list), so no row has Label no with a canonical Category.
C9_LabelNoImpliesCategoryNone ==
    (/\ IsNestedString /\ ~HasPatternNo /\ ~HasPatternYes /\ HasMarker
     /\ SecondDone
     /\ first_attribute = Return(Str("no"))) =>
        /\ second_attribute \in {Return(Str("none")), Return(Str(""))}
        /\ pc = "normalized" => cells.category = "none"

\* the content has one of the shapes the claim names: a non-mapping, or a
\* mapping with or without a content key holding a string
C10_Shape ==
    /\ HasTurnContent
    /\ (IsDict(TurnContent) /\ HasKey(TurnContent, "content"))
           => IsStr(Get(TurnContent, "content"))

\* C10: once the turn at index 2 carries content, of whatever shape, both
\* extractors finish without raising, and the two raise on the same records.
C10_ExtractionTotal ==
    /\ (C10_Shape /\ FirstDone) => ~first_attribute.raised
    /\ (C10_Shape /\ SecondDone) => ~second_attribute.raised
    /\ SecondDone => (first_attribute.raised <=> second_attribute.raised)

-----------------------------------------------------------------------------
(* Properties of process_toxicity_data and of the chain, checked under Spec *)

\* an invocation that has read its inputs writes its table in this step
Writes == pc = "loaded" /\ written' # NotWritten

\* both JSON lists hold records
ListsHoldRecords == data_llama # <<>> /\ data_zephyr # <<>>

\* the cells the model's record of a list gives to a row
LabelOf(record)    == NormalizeLabel(ExtractedFirst[record].value)
CategoryOf(record) == NormalizeCategory(ExtractedSecond[record].value)

Smaller(a, b) == IF a <= b THEN a ELSE b

\* C1: when the table has at least as many rows as each JSON list has
\* entries, every row of the written table has its Label cells in
\* {yes, no, none} and its Category cells among the five categories and
\* none, with no missing value (stated for lists that hold records).
C1_ClosedEnumeration ==
    [][(/\ Writes
        /\ ListsHoldRecords
        /\ Len(data_llama) <= df.nrows
        /\ Len(data_zephyr) <= df.nrows) =>
            \A i \in 1..written'.nrows :
                /\ written'.cols[LlamaLabel][i] \in Labels
                /\ written'.cols[ZephyrLabel][i] \in Labels
                /\ written'.cols[LlamaCategory][i] \in Categories \cup {"none"}
                /\ written'.cols[ZephyrCategory][i] \in Categories \cup {"none"}]_vars

\* the derived cells of every row that has a record come from the record of
\* the same index in the list of the same model
CellsFromOwnRecord ==
    /\ \A i \in 1..Smaller(Len(data_llama), written'.nrows) :
          /\ written'.cols[LlamaLabel][i] = LabelOf(data_llama[i])
          /\ written'.cols[LlamaCategory][i] = CategoryOf(data_llama[i])
    /\ \A i \in 1..Smaller(Len(data_zephyr), written'.nrows) :
          /\ written'.cols[ZephyrLabel][i] = LabelOf(data_zephyr[i])
          /\ written'.cols[ZephyrCategory][i] = CategoryOf(data_zephyr[i])

\* the written table holds the rows of the input table, in their order
SameRows ==
    /\ written'.nrows = df.nrows
    /\ \A i \in 1..df.nrows :
          written'.cols[TextColumn][i] = Utf8Encode(df.cols[TextColumn][i])

Damaged(record) == Len(record) < 3 \/ ~HasKey(record[3], "content")

HasDamaged(data) == \E i \in 1..Len(data) : Damaged(data[i])

\* C7: when a record of either list lacks the turn at index 2 or its content,
\* the invocation ends in an error and writes no table, wherever the record
\* sits in its list.
C7_AbortWithoutOutput ==
    [][(pc = "loaded" /\ (HasDamaged(data_llama) \/ HasDamaged(data_zephyr))) =>
            /\ pc' = "aborted"
            /\ error' \in {"IndexError", "KeyError"}
            /\ written' = NotWritten
            /\ file' = file]_vars

\* the script ended in the second invocation on a Zephyr turn without
\* content, after a first invocation that wrote its table
C7_Witness ==
    /\ pc = "aborted"
    /\ error = "KeyError"
    /\ run = 2
    /\ written = NotWritten
    /\ file.nrows = 2
    /\ LlamaLabel \in DOMAIN file.cols

\* row i of the input table holds a text and, in each derived column, a
\* label or category that an earlier invocation read from a record
LabelledRow(i) ==
    /\ df.cols[TextColumn][i] # <<>>
    /\ \A c \in DerivedColumns : df.cols[c][i] \notin {NaN, "none"}

\* C8: the derived values an earlier invocation wrote are present and
\* unchanged in the table the next invocation writes (stated for the rows
\* that the earlier invocation labelled from records of both lists).
C8_EarlierColumnsKept ==
    [][(Writes /\ ListsHoldRecords /\ DerivedColumns \subseteq DOMAIN df.cols) =>
            \A i \in 1..df.nrows :
                LabelledRow(i) =>
                    \A c \in DerivedColumns :
                        ReadCsv(written').cols[c][i] = df.cols[c][i]]_vars

====
